---- MODULE Spec2Model ----
(***************************************************************************)
(* LiFeLight (src/main.c): a touch pad sampled by an interrupt driven      *)
(* charge/discharge burst, a baseline filter with a Schmitt trigger, and   *)
(* an LED sequencer that records a touch pattern and replays it.           *)
(*                                                                         *)
(* The two C structs `touch' and `led' are the records of the same name.   *)
(* `hw' holds the peripheral and status-register bits the code drives.    *)
(* `obs' and `irq' are history variables: they record what happened and    *)
(* are never read by the modelled code.                                    *)
(***************************************************************************)
EXTENDS Integers, Sequences, FiniteSets

VARIABLES touch, led, hw, obs, irq

vars == <<touch, led, hw, obs, irq>>

(***************************************************************************)
(* Program constants (src/main.c).                                         *)
(***************************************************************************)
TOUCH_CAP_CYCLES == 20
START_CYCLES == 40
BASE_FILTER_SHIFT == 6
BASE_ACTIVE_SHIFT == 10
TOUCH_THRESHOLD == 20
TOUCH_HYSTERESIS == 5
TOUCH_INACTIVE == 0
TOUCH_START == 1
TOUCH_STOP == 2
TOUCH_HELD == 3
TOUCH_ACTIVE_MASK == 1
TOUCH_MASK == 3
LED_SEQ_DIV == 2
LED_PROG_COUNT == 30

(***************************************************************************)
(* LED_SEQ_LENGTH is 100 in the source (src/main.c:89).  The sequence      *)
(* store has 2^LED_SEQ_LENGTH contents, so the model scales the length     *)
(* down; every formula below is stated in terms of LED_SEQ_LENGTH.         *)
(***************************************************************************)
LED_SEQ_LENGTH == 4

(***************************************************************************)
(* Inputs.  RawLevels are the burst durations (in timer counts) the pad    *)
(* can show; CapStarts are the values TAR can have when a burst starts:    *)
(* from 65500 TACCR1 wraps around during the burst.                        *)
(***************************************************************************)
RawLevels == {100, 117, 121, 180}
CapStarts == {65500}

(***************************************************************************)
(* Fixed-width unsigned arithmetic.                                        *)
(***************************************************************************)
U8(x) == x % 256
U16(x) == x % 65536
\* x modulo 2^32, by 16-bit halves (the model checker's integers are 32 bits wide)
U32(x) == ((x \div 65536) % 65536) * 65536 + (x % 65536)

Pow2(n) == 2 ^ n

BASE_FILTER_MUL == U32(Pow2(BASE_FILTER_SHIFT) - 1)
BASE_ACTIVE_MUL == U32(Pow2(BASE_ACTIVE_SHIFT) - 1)

\* touch.active & TOUCH_ACTIVE_MASK
ActiveBit(active) == active % (TOUCH_ACTIVE_MASK + 1)

(***************************************************************************)
(* Baseline filter, main.c lines 180-198.                                  *)
(***************************************************************************)
\* as FilterStep, but computed in the 16-bit unsigned int of the target, as
\* it is without the uint32_t cast in the multiplier
FilterStep_Int16(base, level, mul, shift) ==
    U16(U16(U16(base * mul) + level) \div Pow2(shift))

\* as FilterStep, but the quotient is rounded up
FilterStep_RoundUp(base, level, mul, shift) ==
    U16(U32(U32(U32(base * mul) + level) + mul) \div Pow2(shift))

\* ((base * MUL) + level) >> SHIFT, computed in uint32_t, stored in uint16_t
FilterStep(base, level, mul, shift) ==
    U16(U32(U32(base * mul) + level) \div Pow2(shift))

\* the first order filter, slower while the touch is active
FilteredBase(t) ==
    IF ActiveBit(t.active) # 0
    THEN FilterStep(t.base_level, t.touch_level, BASE_ACTIVE_MUL, BASE_ACTIVE_SHIFT)
    ELSE FilterStep(t.base_level, t.touch_level, BASE_FILTER_MUL, BASE_FILTER_SHIFT)

\* as FastAttack, but the baseline is left to the filter
FastAttack_Lag(level, base) == base

\* "Immediately reduce baseline if touch is lower than baseline"
FastAttack(level, base) == IF level < base THEN level ELSE base

\* whether the startup window is still open
InStartup(t) == t.start_cycle < START_CYCLES

\* as NextBase, but the filter runs from the first tick on
NextBase_NoStartup(t) == FastAttack(t.touch_level, FilteredBase(t))

NextBase(t) ==
    IF InStartup(t)
    THEN t.touch_level
    ELSE FastAttack(t.touch_level, FilteredBase(t))

NextStartCycle(t) ==
    IF InStartup(t) THEN U8(t.start_cycle + 1) ELSE t.start_cycle

(***************************************************************************)
(* Schmitt trigger, main.c lines 199-203.                                  *)
(***************************************************************************)
\* as TouchLimit, but without the hysteresis
TouchLimit_NoHysteresis(active) == U16(TOUCH_THRESHOLD)

\* TOUCH_THRESHOLD + (active ? -TOUCH_HYSTERESIS : TOUCH_HYSTERESIS),
\* an int converted to unsigned for the comparison
TouchLimit(active) ==
    U16(TOUCH_THRESHOLD +
        (IF ActiveBit(active) # 0 THEN -TOUCH_HYSTERESIS ELSE TOUCH_HYSTERESIS))

\* touch_level - base_level in 16-bit unsigned arithmetic
Delta(level, base) == U16(level - base)

NewBit(active, level, base) ==
    IF Delta(level, base) > TouchLimit(active) THEN 1 ELSE 0

\* as NextActive, but the bit of the tick before is not kept
NextActive_LevelOnly(active, level, base) == NewBit(active, level, base)

\* ((active << 1) & TOUCH_MASK) | new bit
NextActive(active, level, base) ==
    ((active * 2) % (TOUCH_MASK + 1)) + NewBit(active, level, base)

\* the touch part of one main loop iteration
TouchProcess(t) ==
    LET base == NextBase(t)
    IN  [t EXCEPT !.base_level = base,
                  !.start_cycle = NextStartCycle(t),
                  !.active = NextActive(t.active, t.touch_level, base)]

(***************************************************************************)
(* LED sequencer, main.c lines 205-254.  Each operator gives the new led   *)
(* struct; LedDrive gives what SetLED was called with.                     *)
(***************************************************************************)
\* as SeqVote, but a tie counts as light
SeqVote_TieIsLight(acc) == IF acc >= (LED_SEQ_DIV \div 2) THEN 1 ELSE 0

\* led.prog_acc > (LED_SEQ_DIV/2)
SeqVote(acc) == IF acc > (LED_SEQ_DIV \div 2) THEN 1 ELSE 0

\* ++led.div_cnt >= LED_SEQ_DIV
DividerReady(cnt) == cnt >= LED_SEQ_DIV

\* as LedBranch, but a starting touch is looked at first
LedBranch_StartFirst(l, active) ==
    IF active = TOUCH_START THEN "start"
    ELSE IF l.prog_countdown > 0 THEN "countdown"
    ELSE IF l.seq_write_idx < LED_SEQ_LENGTH THEN "record"
    ELSE "play"

\* which branch of the if/else chain one iteration takes
LedBranch(l, active) ==
    IF l.prog_countdown > 0 THEN "countdown"
    ELSE IF l.seq_write_idx < LED_SEQ_LENGTH THEN "record"
    ELSE IF active = TOUCH_START THEN "start"
    ELSE "play"

\* as LedCountdown, but the countdown goes down by two
LedCountdown_ByTwo(l) == [l EXCEPT !.prog_countdown = U8(@ - 2)]

LedCountdown(l) == [l EXCEPT !.prog_countdown = U8(@ - 1)]

\* as LedRecord, but a release of the touch ends the session
LedRecord_AbortOnStop(l, active) ==
    LET acc == U8(l.prog_acc + ActiveBit(active))
        cnt == U8(l.div_cnt + 1)
        step == SeqVote(acc)
    IN  IF active = TOUCH_STOP
        THEN [l EXCEPT !.div_cnt = 0, !.prog_acc = 0,
                       !.seq_write_idx = LED_SEQ_LENGTH]
        ELSE IF DividerReady(cnt)
        THEN [l EXCEPT !.div_cnt = 0,
                       !.seq[l.seq_write_idx] = step,
                       !.seq_has_light = IF @ # 0 \/ step # 0 THEN 1 ELSE 0,
                       !.seq_write_idx = U8(@ + 1),
                       !.prog_acc = 0]
        ELSE [l EXCEPT !.prog_acc = acc, !.div_cnt = cnt]

LedRecord(l, active) ==
    LET acc == U8(l.prog_acc + ActiveBit(active))
        cnt == U8(l.div_cnt + 1)
        step == SeqVote(acc)
    IN  IF DividerReady(cnt)
        THEN [l EXCEPT !.div_cnt = 0,
                       !.seq[l.seq_write_idx] = step,
                       !.seq_has_light = IF @ # 0 \/ step # 0 THEN 1 ELSE 0,
                       !.seq_write_idx = U8(@ + 1),
                       !.prog_acc = 0]
        ELSE [l EXCEPT !.prog_acc = acc, !.div_cnt = cnt]

\* as LedStart, but the write index is left at LED_SEQ_LENGTH
LedStart_KeepWrite(l) ==
    [l EXCEPT !.prog_countdown = LED_PROG_COUNT,
              !.seq_read_idx = 0,
              !.div_cnt = 0,
              !.seq_has_light = 0]

\* as LedStart, but the read index is left where playback was
LedStart_KeepRead(l) ==
    [l EXCEPT !.prog_countdown = LED_PROG_COUNT,
              !.seq_write_idx = 0,
              !.div_cnt = 0,
              !.seq_has_light = 0]

\* as LedStart, but seq_has_light is not reset
LedStart_KeepLight(l) ==
    [l EXCEPT !.prog_countdown = LED_PROG_COUNT,
              !.seq_write_idx = 0,
              !.seq_read_idx = 0,
              !.div_cnt = 0]

LedStart(l) ==
    [l EXCEPT !.prog_countdown = LED_PROG_COUNT,
              !.seq_write_idx = 0,
              !.seq_read_idx = 0,
              !.div_cnt = 0,
              !.seq_has_light = 0]

\* as LedPlay, but the read index wraps one step early
LedPlay_ShortWrap(l) ==
    LET cnt == U8(l.div_cnt + 1)
        idx == U8(l.seq_read_idx + 1)
    IN  IF DividerReady(cnt)
        THEN [l EXCEPT !.div_cnt = 0,
                       !.seq_read_idx =
                           IF idx >= LED_SEQ_LENGTH - 1 THEN 0 ELSE idx]
        ELSE [l EXCEPT !.div_cnt = cnt]

\* as LedPlay, but the read index wraps one step late
LedPlay_LateWrap(l) ==
    LET cnt == U8(l.div_cnt + 1)
        idx == U8(l.seq_read_idx + 1)
    IN  IF DividerReady(cnt)
        THEN [l EXCEPT !.div_cnt = 0,
                       !.seq_read_idx = IF idx > LED_SEQ_LENGTH THEN 0 ELSE idx]
        ELSE [l EXCEPT !.div_cnt = cnt]

LedPlay(l) ==
    LET cnt == U8(l.div_cnt + 1)
        idx == U8(l.seq_read_idx + 1)
    IN  IF DividerReady(cnt)
        THEN [l EXCEPT !.div_cnt = 0,
                       !.seq_read_idx = IF idx >= LED_SEQ_LENGTH THEN 0 ELSE idx]
        ELSE [l EXCEPT !.div_cnt = cnt]

LedProcess(l, active) ==
    LET b == LedBranch(l, active)
    IN  IF b = "countdown" THEN LedCountdown(l)
        ELSE IF b = "record" THEN LedRecord(l, active)
        ELSE IF b = "start" THEN LedStart(l)
        ELSE LedPlay(l)

\* The argument of SetLED in this iteration: TRUE for non-zero, FALSE for
\* zero.  The start branch does not call SetLED; TACCTL0 then keeps the
\* value `drive' it had.
LedDrive(l, active, drive) ==
    LET b == LedBranch(l, active)
    IN  IF b = "countdown" THEN l.prog_countdown % 2 # 0
        ELSE IF b = "record" THEN ActiveBit(active) # 0
        ELSE IF b = "start" THEN drive
        ELSE l.seq[l.seq_read_idx] # 0

\* main.c line 170: keep SMCLK on while programming or the sequence has light
KeepSmclk(l) == l.seq_write_idx < LED_SEQ_LENGTH \/ l.seq_has_light # 0

(***************************************************************************)
(* The machine state as one record, so that a handler is an operator from  *)
(* machine state to machine state and a tick can compose handlers.         *)
(*   hw.drive   TACCTL0 == OUTMOD_4 | CCIE (SetLED(on)); FALSE: OUTMOD_5   *)
(*   hw.out0    the LED pin, toggled by the compare unit in OUTMOD_4       *)
(*   hw.pull    the TOUCH_PIN_MASK bit of P1OUT                            *)
(*   hw.ccifg   CCIFG of TACCTL1: a capture edge is pending                *)
(*   hw.taccr1  the capture register                                       *)
(*   hw.cpuoff  CPUOFF of the status register: main is asleep              *)
(*   hw.scg     SCG1|SCG0 of the status register: SMCLK and DCO are off    *)
(***************************************************************************)
M == [touch |-> touch, led |-> led, hw |-> hw, obs |-> obs, irq |-> irq]

Set(m) ==
    /\ touch' = m.touch
    /\ led' = m.led
    /\ hw' = m.hw
    /\ obs' = m.obs
    /\ irq' = m.irq

SeqIndices == 0 .. (LED_SEQ_LENGTH - 1)

\* ticks in one pass over the sequence
SeqTicks == LED_SEQ_LENGTH * LED_SEQ_DIV

\* the playback tick count `obs.pbK' stops counting here
PbCap == SeqTicks + 1

\* the last n elements of s
LastN(s, n) == IF Len(s) <= n THEN s ELSE SubSeq(s, Len(s) - n + 1, Len(s))

\* the index of led.seq that an iteration writes (main.c line 223), -1: none
SeqWriteIdx(l, active) ==
    IF LedBranch(l, active) = "record" /\ DividerReady(U8(l.div_cnt + 1))
    THEN l.seq_write_idx
    ELSE -1

(***************************************************************************)
(* History of one main loop iteration: the baseline it started from, the   *)
(* branch taken, the active bits sampled on the recording ticks of the     *)
(* current session, the indices written in it, and the SetLED arguments    *)
(* of the current stretch of playback ticks (pbK counts them up to PbCap,  *)
(* pbOut keeps the last SeqTicks + 1 of them).  The samples and indices    *)
(* of a session are kept through the first pass of playback over it.       *)
(* base is the baseline on entry, l the led struct on entry, active the    *)
(* new edge state, on the SetLED argument.                                 *)
(***************************************************************************)
ObsStep(o, base, l, active, on) ==
    LET b == LedBranch(l, active)
        w == SeqWriteIdx(l, active)
    IN  IF b = "start"
        THEN [branch |-> b, baseIn |-> base, recSamples |-> <<>>,
              written |-> <<>>, pbK |-> 0, pbOut |-> <<>>]
        ELSE IF b = "countdown"
        THEN [o EXCEPT !.branch = b, !.baseIn = base]
        ELSE IF b = "record"
        THEN [o EXCEPT !.branch = b,
                       !.baseIn = base,
                       !.recSamples = Append(@, ActiveBit(active)),
                       !.written = IF w >= 0 THEN Append(@, w) ELSE @]
        ELSE [o EXCEPT !.branch = b,
                       !.baseIn = base,
                       !.recSamples = IF o.pbK + 1 < PbCap THEN @ ELSE <<>>,
                       !.written = IF o.pbK + 1 < PbCap THEN @ ELSE <<>>,
                       !.pbK = IF @ < PbCap THEN @ + 1 ELSE @,
                       !.pbOut = LastN(Append(@, IF on THEN 1 ELSE 0),
                                       SeqTicks + 1)]

(***************************************************************************)
(* WDTInterval_ISR, main.c lines 286-298.  tar is the value of TAR.        *)
(***************************************************************************)
\* as WdtIsr, but it clears LPM3_bits on exit, CPUOFF included
WdtIsr_Wakes(m, tar) ==
    [m EXCEPT !.touch.cap_cycle = TOUCH_CAP_CYCLES,
              !.touch.cap_start = tar,
              !.hw.drive = FALSE,
              !.hw.pull = 1 - @,
              !.hw.ccifg = TRUE,
              !.hw.scg = FALSE,
              !.hw.cpuoff = FALSE,
              !.irq = [toggles |-> 1, latches |-> 0, steps |-> 0]]

WdtIsr(m, tar) ==
    [m EXCEPT !.touch.cap_cycle = TOUCH_CAP_CYCLES,
              !.touch.cap_start = tar,
              !.hw.drive = FALSE,
              !.hw.pull = 1 - @,
              !.hw.ccifg = TRUE,
              !.hw.scg = FALSE,
              !.irq = [toggles |-> 1, latches |-> 0, steps |-> 0]]

(***************************************************************************)
(* TimerA_ISR, main.c lines 268-282.  ccr1 is the value captured in        *)
(* TACCR1 by the edge that raised the interrupt.                           *)
(***************************************************************************)
\* as BurstContinues, but the value before the decrement is tested
BurstContinues_PostDecrement(cycle) == cycle # 0

\* --touch.cap_cycle as the if condition
BurstContinues(cycle) == U8(cycle - 1) # 0

CaptureIsr(m, ccr1) ==
    IF BurstContinues(m.touch.cap_cycle)
    THEN [m EXCEPT !.touch.cap_cycle = U8(@ - 1),
                   !.hw.taccr1 = ccr1,
                   !.hw.pull = 1 - @,
                   !.hw.ccifg = TRUE,
                   !.irq.toggles = @ + 1]
    ELSE [m EXCEPT !.touch.cap_cycle = U8(@ - 1),
                   !.hw.taccr1 = ccr1,
                   !.hw.ccifg = FALSE,
                   !.touch.touch_level = U16(ccr1 - m.touch.cap_start),
                   !.hw.cpuoff = FALSE,
                   !.hw.scg = FALSE,
                   !.irq.latches = @ + 1]

(***************************************************************************)
(* TimerA0_ISR, main.c lines 260-264: the compare event toggles the LED    *)
(* pin (OUTMOD_4) and the handler moves TACCR0 on by one toggle time.      *)
(* TACCR0 itself is not part of the model.                                 *)
(***************************************************************************)
Ccr0Isr(m) == [m EXCEPT !.hw.out0 = 1 - @]

(***************************************************************************)
(* One iteration of the main loop, main.c lines 178-254, followed by the   *)
(* sleep at the top of the next one, lines 170-176.                        *)
(***************************************************************************)
MainIter(m) ==
    LET t == TouchProcess(m.touch)
        l == LedProcess(m.led, t.active)
        on == LedDrive(m.led, t.active, m.hw.drive)
    IN  [m EXCEPT !.touch = t,
                  !.led = l,
                  !.hw.drive = on,
                  !.hw.cpuoff = TRUE,
                  !.hw.scg = ~KeepSmclk(l),
                  !.obs = ObsStep(m.obs, m.touch.base_level, m.led, t.active, on),
                  !.irq.steps = @ + 1]

(***************************************************************************)
(* The state after Init() and the first sleep instruction.                 *)
(***************************************************************************)
InitTouch ==
    [active |-> 0, cap_cycle |-> 0, cap_start |-> 0, touch_level |-> 0,
     base_level |-> 0, start_cycle |-> 0]

\* as InitLed, but without the assignment of main.c line 146
InitLed_NoSentinel ==
    [div_cnt |-> 0, prog_acc |-> 0, seq |-> [i \in SeqIndices |-> 0],
     seq_read_idx |-> 0, seq_write_idx |-> 0,
     seq_has_light |-> 0, prog_countdown |-> 0]

InitLed ==
    [div_cnt |-> 0, prog_acc |-> 0, seq |-> [i \in SeqIndices |-> 0],
     seq_read_idx |-> 0, seq_write_idx |-> LED_SEQ_LENGTH,
     seq_has_light |-> 0, prog_countdown |-> 0]

InitHw ==
    [drive |-> FALSE, out0 |-> 0, pull |-> 0, ccifg |-> FALSE, taccr1 |-> 0,
     cpuoff |-> TRUE, scg |-> ~KeepSmclk(InitLed)]

Init ==
    /\ touch = InitTouch
    /\ led = InitLed
    /\ hw = InitHw
    /\ obs = [branch |-> "boot", baseIn |-> 0, recSamples |-> <<>>,
              written |-> <<>>, pbK |-> 0, pbOut |-> <<>>]
    /\ irq = [toggles |-> 0, latches |-> 0, steps |-> 0]

(***************************************************************************)
(* Spec: one action per tick.  The tick interrupt starts the burst, the    *)
(* capture interrupt runs TOUCH_CAP_CYCLES times, the last one wakes main, *)
(* which runs one iteration and sleeps.  The burst starts at TAR = start   *)
(* and its last edge is captured dur timer counts later.                   *)
(***************************************************************************)
RECURSIVE Burst(_, _)
Burst(m, ccr1) ==
    IF m.hw.cpuoff /\ m.hw.ccifg THEN Burst(CaptureIsr(m, ccr1), ccr1) ELSE m

Tick(start, dur) ==
    /\ hw.cpuoff
    /\ ~hw.ccifg
    /\ Set(MainIter(Burst(WdtIsr(M, start), U16(start + dur))))

Next == \E start \in CapStarts, dur \in RawLevels : Tick(start, dur)

Spec == Init /\ [][Next]_vars

(***************************************************************************)
(* SpecIrq: one action per interrupt handler and one for the main loop.    *)
(* Handlers run with interrupts disabled, so each is one step.  The tick   *)
(* period (512 cycles of the 12 kHz VLO) is far longer than a burst and    *)
(* one iteration of the main loop, so the tick interrupt finds the         *)
(* previous burst finished and main asleep.  A toggle of the pull raises   *)
(* one capture edge; the timer compare interrupt needs CCIE (hw.drive)     *)
(* and a running SMCLK.                                                    *)
(***************************************************************************)
IrqLevels == {100, 180}
IrqStarts == {65500}

\* the shortest burst
MinLevel == CHOOSE x \in IrqLevels : \A y \in IrqLevels : x <= y

\* TAR at the next capture edge of a burst that takes dur timer counts: the
\* last edge comes dur counts after the start; the handler does not read
\* TACCR1 on the edges before it, which come at the pace of the shortest
\* burst
EdgeTime(m, dur) ==
    LET n == TOUCH_CAP_CYCLES - m.touch.cap_cycle + 1
    IN  IF n < TOUCH_CAP_CYCLES
        THEN U16(m.touch.cap_start + (n * MinLevel) \div TOUCH_CAP_CYCLES)
        ELSE U16(m.touch.cap_start + dur)

WDTInterval_ISR ==
    /\ hw.cpuoff
    /\ ~hw.ccifg
    /\ \E tar \in IrqStarts : Set(WdtIsr(M, tar))

TimerA_ISR ==
    /\ hw.ccifg
    /\ \E dur \in IrqLevels : Set(CaptureIsr(M, EdgeTime(M, dur)))

TimerA0_ISR ==
    /\ hw.drive
    /\ ~hw.scg
    /\ Set(Ccr0Isr(M))

MainLoop ==
    /\ ~hw.cpuoff
    /\ Set(MainIter(M))

NextIrq == WDTInterval_ISR \/ TimerA_ISR \/ TimerA0_ISR \/ MainLoop

SpecIrq == Init /\ [][NextIrq]_vars

(***************************************************************************)
(* SpecFilter: the touch processing of the main loop (main.c lines         *)
(* 178-203) on its own, over the whole 16-bit range of raw levels.  It     *)
(* starts at the end of the startup window, where the baseline equals the  *)
(* raw level whatever that is, and feeds up to MaxFilterTicks further raw  *)
(* levels; irq.steps counts them.  The sequencer does not run here.        *)
(***************************************************************************)
MaxFilterTicks == 12

FilterLevels == {0, 100, 120, 127, 2000, 65000, 65535}

InitFilter ==
    /\ \E v \in FilterLevels, c \in {START_CYCLES - 1, START_CYCLES} :
          touch = [InitTouch EXCEPT !.touch_level = v,
                                    !.base_level = v,
                                    !.start_cycle = c]
    /\ led = InitLed
    /\ hw = InitHw
    /\ obs = [branch |-> "boot", baseIn |-> 0, recSamples |-> <<>>,
              written |-> <<>>, pbK |-> 0, pbOut |-> <<>>]
    /\ irq = [toggles |-> 0, latches |-> 0, steps |-> 0]

FilterTick(level) ==
    /\ irq.steps < MaxFilterTicks
    /\ touch' = TouchProcess([touch EXCEPT !.touch_level = level])
    /\ irq' = [irq EXCEPT !.steps = @ + 1]
    /\ UNCHANGED <<led, hw, obs>>

NextFilter == \E level \in FilterLevels : FilterTick(level)

SpecFilter == InitFilter /\ [][NextFilter]_vars

(***************************************************************************)
(* Vocabulary of the properties.                                           *)
(***************************************************************************)
\* the controller phase at a tick boundary
Phase(l) ==
    IF l.prog_countdown > 0 THEN "COUNTDOWN"
    ELSE IF l.seq_write_idx < LED_SEQ_LENGTH THEN "RECORDING"
    ELSE "PLAYBACK"

\* <<0, 1, ..., n-1>>
Upto(n) == [i \in 1 .. n |-> i - 1]

\* how many of s[a], ..., s[b] are 1
Ones(s, a, b) == Cardinality({i \in a .. b : s[i] = 1})

\* the majority vote over the samples of slot i of the session
SlotVote(samples, i) ==
    IF Ones(samples, i * LED_SEQ_DIV + 1, i * LED_SEQ_DIV + LED_SEQ_DIV)
           > LED_SEQ_DIV \div 2
    THEN 1 ELSE 0

\* the SetLED argument of the last iteration, as 0 or 1
LightOut == IF hw.drive THEN 1 ELSE 0

(***************************************************************************)
(* C1.  Once a START edge is honoured the session runs to completion       *)
(* whatever is touched: the countdown leads to RECORDING, RECORDING lasts  *)
(* exactly LED_SEQ_LENGTH * LED_SEQ_DIV ticks and writes the indices       *)
(* 0 .. LED_SEQ_LENGTH-1 once each in increasing order, and only then the  *)
(* controller is back in PLAYBACK, with seq_write_idx = LED_SEQ_LENGTH and *)
(* seq_read_idx = 0.  Stated on the state each kind of iteration leaves.   *)
(***************************************************************************)
C1_SessionRunsToCompletion ==
    /\ obs.branch = "start" =>
          /\ Phase(led) = "COUNTDOWN"
          /\ obs.recSamples = <<>> /\ obs.written = <<>>
    /\ obs.branch = "countdown" =>
          /\ Phase(led) \in {"COUNTDOWN", "RECORDING"}
          /\ obs.recSamples = <<>> /\ obs.written = <<>>
    /\ obs.branch = "record" =>
          /\ Len(obs.recSamples) = led.seq_write_idx * LED_SEQ_DIV + led.div_cnt
          /\ obs.written = Upto(led.seq_write_idx)
          /\ led.seq_read_idx = 0
          /\ IF Len(obs.recSamples) < SeqTicks
             THEN Phase(led) = "RECORDING"
             ELSE /\ Len(obs.recSamples) = SeqTicks
                  /\ Phase(led) = "PLAYBACK"
                  /\ led.seq_write_idx = LED_SEQ_LENGTH
    /\ (obs.branch = "play" /\ obs.recSamples # <<>>) =>
          /\ Len(obs.recSamples) = SeqTicks
          /\ obs.written = Upto(LED_SEQ_LENGTH)

\* a session has just completed during which the touch was both on and off
\* and was released on the last tick
C1_Witness ==
    /\ obs.branch = "record"
    /\ Phase(led) = "PLAYBACK"
    /\ touch.active = TOUCH_STOP
    /\ \E i \in 1 .. Len(obs.recSamples) : obs.recSamples[i] = 1
    /\ obs.written = Upto(LED_SEQ_LENGTH)

(***************************************************************************)
(* C2.  A START edge seen on a tick that begins in COUNTDOWN or RECORDING  *)
(* is ignored: the led struct (countdown, indices, divider, accumulator,   *)
(* has_light, slots) becomes on that tick what it becomes for HELD, the    *)
(* other edge state with the same active bit.  A countdown begins only on  *)
(* a tick that begins in PLAYBACK and sees START.                          *)
(***************************************************************************)
C2_Step ==
    /\ (Phase(led) # "PLAYBACK" /\ touch'.active = TOUCH_START) =>
          led' = LedProcess(led, TOUCH_HELD)
    /\ led'.prog_countdown > led.prog_countdown =>
          (Phase(led) = "PLAYBACK" /\ touch'.active = TOUCH_START)
    /\ (Phase(led) = "PLAYBACK" /\ touch'.active = TOUCH_START) =>
          led'.prog_countdown = LED_PROG_COUNT

C2_StartOnlyFromPlayback == [][C2_Step]_vars

\* a touch has just started in the middle of a recording session
C2_Witness ==
    /\ obs.branch = "record"
    /\ touch.active = TOUCH_START
    /\ led.seq_write_idx = 1
    /\ led.div_cnt = 1

(***************************************************************************)
(* C3.  Majority vote: every slot written by the current session holds 1   *)
(* exactly if more than LED_SEQ_DIV / 2 of the LED_SEQ_DIV active bits     *)
(* sampled on the recording ticks i*DIV .. i*DIV+DIV-1 of that session     *)
(* were 1.  Nothing else contributes: the accumulator is 0 outside         *)
(* RECORDING and holds the samples of the unfinished slot inside it.       *)
(***************************************************************************)
C3_MajorityVote ==
    /\ \A i \in SeqIndices :
          (i + 1) * LED_SEQ_DIV <= Len(obs.recSamples) =>
              led.seq[i] = SlotVote(obs.recSamples, i)
    /\ Phase(led) # "RECORDING" => led.prog_acc = 0
    /\ (Phase(led) = "RECORDING" /\ obs.branch = "record") =>
          led.prog_acc = Ones(obs.recSamples,
                              led.seq_write_idx * LED_SEQ_DIV + 1,
                              Len(obs.recSamples))
    /\ (Phase(led) = "RECORDING" /\ obs.branch = "countdown") =>
          led.prog_acc = 0

\* a completed session with a slot that was a tie and a slot fully touched
C3_Witness ==
    /\ Phase(led) = "PLAYBACK"
    /\ Len(obs.recSamples) = SeqTicks
    /\ \E i \in SeqIndices :
          /\ Ones(obs.recSamples, i * LED_SEQ_DIV + 1, (i + 1) * LED_SEQ_DIV)
                = LED_SEQ_DIV \div 2
          /\ led.seq[i] = 0
    /\ \E j \in SeqIndices :
          /\ Ones(obs.recSamples, j * LED_SEQ_DIV + 1, (j + 1) * LED_SEQ_DIV)
                = LED_SEQ_DIV
          /\ led.seq[j] = 1

(***************************************************************************)
(* C4.  Record then replay: after a completed session, playback starts at  *)
(* slot 0 with a fresh divider and, as long as no START edge is honoured,  *)
(* the SetLED argument of playback tick k = 0, 1, 2, ... is slot           *)
(* (k div DIV) mod LENGTH, which is the majority of the samples recorded   *)
(* for that slot.  With DIV = 2, LENGTH = 4 and the samples                *)
(* 1,1,0,0,1,0,1,1 the slots are 1,0,0,1 and the first eight playback      *)
(* outputs are 1,1,0,0,0,0,1,1.                                            *)
(***************************************************************************)
C4_RoundTrip ==
    /\ (obs.branch = "record" /\ Phase(led) = "PLAYBACK") =>
          (led.seq_read_idx = 0 /\ led.div_cnt = 0 /\ obs.pbK = 0)
    /\ (obs.branch = "play" /\ Len(obs.recSamples) = SeqTicks
            /\ obs.pbK < PbCap) =>
          LET slot == ((obs.pbK - 1) \div LED_SEQ_DIV) % LED_SEQ_LENGTH
          IN  /\ LightOut = led.seq[slot]
              /\ LightOut = SlotVote(obs.recSamples, slot)
    /\ (LED_SEQ_DIV = 2 /\ LED_SEQ_LENGTH = 4
            /\ obs.recSamples = <<1, 1, 0, 0, 1, 0, 1, 1>>) =>
          /\ led.seq = [i \in SeqIndices |-> <<1, 0, 0, 1>>[i + 1]]
          /\ (obs.branch = "play" /\ obs.pbK = 8) =>
                obs.pbOut = <<1, 1, 0, 0, 0, 0, 1, 1>>

\* the scenario: eight playback ticks after recording 1,1,0,0,1,0,1,1
C4_Witness ==
    /\ obs.recSamples = <<1, 1, 0, 0, 1, 0, 1, 1>>
    /\ obs.branch = "play"
    /\ obs.pbK = 8
    /\ obs.pbOut = <<1, 1, 0, 0, 0, 0, 1, 1>>

(***************************************************************************)
(* C5.  Playback is periodic: on a tick that begins in PLAYBACK and        *)
(* honours no START edge the slots are not modified, the divider counts    *)
(* modulo LED_SEQ_DIV, seq_read_idx advances by one modulo LED_SEQ_LENGTH  *)
(* exactly when the divider wraps, and the SetLED argument equals the one  *)
(* of LED_SEQ_LENGTH * LED_SEQ_DIV playback ticks earlier in the stretch.  *)
(***************************************************************************)
C5_Step ==
    (Phase(led) = "PLAYBACK" /\ touch'.active # TOUCH_START) =>
        /\ led'.seq = led.seq
        /\ led'.div_cnt = (led.div_cnt + 1) % LED_SEQ_DIV
        /\ led'.seq_read_idx =
              IF led.div_cnt = LED_SEQ_DIV - 1
              THEN (led.seq_read_idx + 1) % LED_SEQ_LENGTH
              ELSE led.seq_read_idx
        /\ hw'.drive = (led.seq[led.seq_read_idx] # 0)
        /\ Len(obs'.pbOut) = SeqTicks + 1 =>
              obs'.pbOut[SeqTicks + 1] = obs'.pbOut[1]

C5_PlaybackPeriodic == [][C5_Step]_vars

\* more than one period of playback of a pattern with light and dark slots
C5_Witness ==
    /\ obs.branch = "play"
    /\ Len(obs.pbOut) = SeqTicks + 1
    /\ obs.pbOut[1] = 1
    /\ obs.pbOut[LED_SEQ_DIV + 1] = 0
    /\ obs.pbK = PbCap

(***************************************************************************)
(* C6.  Startup lock: on each of the first START_CYCLES ticks (the ticks   *)
(* that begin with start_cycle < START_CYCLES) the baseline ends equal to  *)
(* the raw level, the active bit computed is 0 and the edge state stays    *)
(* INACTIVE; start_cycle goes up by one per tick to START_CYCLES and       *)
(* stays there, so START is first possible on tick START_CYCLES + 1.       *)
(***************************************************************************)
C6_Step ==
    /\ touch'.start_cycle <= START_CYCLES
    /\ touch.start_cycle < START_CYCLES =>
          /\ touch'.start_cycle = touch.start_cycle + 1
          /\ touch'.base_level = touch'.touch_level
          /\ ActiveBit(touch'.active) = 0
          /\ touch'.active = TOUCH_INACTIVE
    /\ touch.start_cycle >= START_CYCLES =>
          touch'.start_cycle = START_CYCLES
    /\ touch'.active = TOUCH_START => touch.start_cycle = START_CYCLES

C6_StartupLock == [][C6_Step]_vars

\* the raw level has jumped from 100 to 180 inside the startup window
C6_Witness ==
    /\ touch.start_cycle = START_CYCLES - 1
    /\ obs.baseIn = 100
    /\ touch.touch_level = 180
    /\ touch.base_level = 180
    /\ touch.active = TOUCH_INACTIVE

(***************************************************************************)
(* C7.  Schmitt trigger: on every tick the new active bit is 1 exactly if  *)
(* delta = touch_level - base_level (16 bit, after the baseline update)    *)
(* is above THRESHOLD - HYSTERESIS when the previous bit was 1, and above  *)
(* THRESHOLD + HYSTERESIS when it was 0; the edge state keeps the          *)
(* previous bit beside the new one.  So an active touch stays active       *)
(* until delta <= THRESHOLD - HYSTERESIS, an inactive one inactive until   *)
(* delta > THRESHOLD + HYSTERESIS.                                         *)
(***************************************************************************)
C7_Step ==
    LET delta == Delta(touch'.touch_level, touch'.base_level)
        was == ActiveBit(touch.active)
        now == ActiveBit(touch'.active)
    IN  /\ was = 1 => (now = 1 <=> delta > TOUCH_THRESHOLD - TOUCH_HYSTERESIS)
        /\ was = 0 => (now = 1 <=> delta > TOUCH_THRESHOLD + TOUCH_HYSTERESIS)
        /\ touch'.active = 2 * was + now

C7_SchmittTrigger == [][C7_Step]_vars

\* a touch held with delta between the two limits
C7_Witness ==
    /\ touch.active = TOUCH_HELD
    /\ Delta(touch.touch_level, touch.base_level)
          > TOUCH_THRESHOLD - TOUCH_HYSTERESIS
    /\ Delta(touch.touch_level, touch.base_level)
          <= TOUCH_THRESHOLD + TOUCH_HYSTERESIS

(***************************************************************************)
(* C8.  No-lag release: on a tick after the startup window, if the raw     *)
(* level of the tick is below the baseline the tick starts with, the       *)
(* baseline equals the raw level when the tick ends, with either filter    *)
(* shift.                                                                  *)
(***************************************************************************)
C8_Step ==
    (touch.start_cycle >= START_CYCLES
        /\ touch'.touch_level < touch.base_level) =>
            touch'.base_level = touch'.touch_level

C8_NoLagRelease == [][C8_Step]_vars

\* a release during recording: the touch was active (large shift), the raw
\* level fell below the baseline and the baseline followed at once
C8_Witness ==
    /\ obs.branch = "record"
    /\ touch.active = TOUCH_STOP
    /\ touch.touch_level < obs.baseIn
    /\ touch.base_level = touch.touch_level

(***************************************************************************)
(* C9 as claimed: at every tick boundary exactly one of countdown > 0,     *)
(* write_index < L, and (countdown = 0 and write_index >= L) holds.        *)
(***************************************************************************)
TrueCount(conds) == Cardinality({i \in DOMAIN conds : conds[i]})

C9_Original ==
    TrueCount(<<led.prog_countdown > 0,
                led.seq_write_idx < LED_SEQ_LENGTH,
                led.prog_countdown = 0
                    /\ led.seq_write_idx >= LED_SEQ_LENGTH>>) = 1

(***************************************************************************)
(* C9 as amended: seq_write_idx never exceeds LED_SEQ_LENGTH and exactly   *)
(* one of countdown > 0, (countdown = 0 and write_index < L) and           *)
(* (countdown = 0 and write_index = L) holds; during the whole countdown   *)
(* write_index is 0, so countdown > 0 and write_index < L hold together    *)
(* there and nowhere else.                                                 *)
(***************************************************************************)
C9_PhasesExclusive ==
    /\ led.seq_write_idx <= LED_SEQ_LENGTH
    /\ led.prog_countdown <= LED_PROG_COUNT
    /\ led.prog_countdown > 0 => led.seq_write_idx = 0
    /\ TrueCount(<<led.prog_countdown > 0,
                   led.prog_countdown = 0
                       /\ led.seq_write_idx < LED_SEQ_LENGTH,
                   led.prog_countdown = 0
                       /\ led.seq_write_idx = LED_SEQ_LENGTH>>) = 1

\* in the middle of a countdown
C9_Witness ==
    /\ obs.branch = "countdown"
    /\ led.prog_countdown > 0
    /\ led.seq_write_idx < LED_SEQ_LENGTH

(***************************************************************************)
(* C10.  Handoff between the interrupts and main: an iteration of the      *)
(* main loop runs only when the capture interrupt has counted the burst    *)
(* down to zero and latched touch_level = TACCR1 - cap_start, and once per *)
(* tick; the capture interrupt wakes main exactly when the count reaches   *)
(* zero; the tick interrupt and the LED toggle interrupt leave main        *)
(* asleep, and a tick starts after the one iteration of the tick before.   *)
(***************************************************************************)
C10_Step ==
    /\ MainLoop =>
          /\ touch.cap_cycle = 0
          /\ ~hw.ccifg
          /\ irq.latches = 1
          /\ irq.steps = 0
          /\ touch.touch_level = U16(hw.taccr1 - touch.cap_start)
    /\ TimerA_ISR => (~hw'.cpuoff <=> touch'.cap_cycle = 0)
    /\ WDTInterval_ISR =>
          /\ hw'.cpuoff
          /\ irq.steps = 1 \/ obs.branch = "boot"
    /\ TimerA0_ISR => hw'.cpuoff = hw.cpuoff

C10_HandoffOrdering == [][C10_Step]_vars

\* main has run its iteration of a tick and sleeps while the LED toggle
\* interrupt fires
C10_Witness ==
    /\ irq.steps = 1
    /\ irq.latches = 1
    /\ touch.cap_cycle = 0
    /\ hw.cpuoff
    /\ hw.drive
    /\ hw.out0 = 1

(***************************************************************************)
(* C11.  Boot: after power-up the controller is in PLAYBACK with           *)
(* seq_write_idx = LED_SEQ_LENGTH, seq_read_idx = 0, no countdown, no      *)
(* has_light and every slot 0.  From such an empty PLAYBACK state every    *)
(* tick that honours no START edge leaves it empty and calls SetLED(0),    *)
(* whatever the raw level is, so the light is commanded off on every tick  *)
(* from boot until the first START edge is honoured; none is honoured in   *)
(* the startup window.                                                     *)
(***************************************************************************)
EmptyPlayback(l) ==
    /\ l.prog_countdown = 0
    /\ l.seq_write_idx = LED_SEQ_LENGTH
    /\ l.seq_has_light = 0
    /\ \A i \in SeqIndices : l.seq[i] = 0

C11_Step ==
    /\ obs.branch = "boot" =>
          /\ EmptyPlayback(led)
          /\ Phase(led) = "PLAYBACK"
          /\ led.seq_read_idx = 0
          /\ ~hw.drive
    /\ (EmptyPlayback(led) /\ obs'.branch # "start") =>
          /\ EmptyPlayback(led')
          /\ obs'.branch = "play"
          /\ ~hw'.drive
    /\ (EmptyPlayback(led) /\ obs'.branch = "start") =>
          /\ touch.start_cycle = START_CYCLES
          /\ ~hw'.drive
    /\ touch.start_cycle < START_CYCLES => obs'.branch = "play"

C11_BootDark == [][C11_Step]_vars

\* still dark after the startup window and more than one pass over the
\* empty sequence, with a raw level that has moved
C11_Witness ==
    /\ obs.branch = "play"
    /\ obs.pbK = PbCap
    /\ touch.start_cycle = START_CYCLES
    /\ touch.touch_level = 121
    /\ touch.base_level < touch.touch_level
    /\ EmptyPlayback(led)
    /\ ~hw.drive

(***************************************************************************)
(* C12.  Index bounds: seq_read_idx stays in 0 .. LED_SEQ_LENGTH-1 and     *)
(* seq_write_idx in 0 .. LED_SEQ_LENGTH; the slots change only on a tick   *)
(* that begins with seq_write_idx < LED_SEQ_LENGTH, and then only the slot *)
(* seq_write_idx; the slot read by the play branch and the slot written    *)
(* and read back by the record branch are inside the array.                *)
(***************************************************************************)
C12_Step ==
    /\ led.seq_read_idx \in SeqIndices
    /\ led'.seq_read_idx \in SeqIndices
    /\ led.seq_write_idx \in 0 .. LED_SEQ_LENGTH
    /\ led'.seq_write_idx \in 0 .. LED_SEQ_LENGTH
    /\ DOMAIN led'.seq = SeqIndices
    /\ SeqWriteIdx(led, touch'.active) >= 0 =>
          /\ led.seq_write_idx < LED_SEQ_LENGTH
          /\ SeqWriteIdx(led, touch'.active) \in SeqIndices
    /\ \A i \in SeqIndices :
          led'.seq[i] # led.seq[i] => i = SeqWriteIdx(led, touch'.active)
    /\ obs'.branch = "play" => led.seq_read_idx \in SeqIndices

C12_IndexBounds == [][C12_Step]_vars

\* the last slot was written with light and playback has just wrapped the
\* read index from LED_SEQ_LENGTH-1 to 0
C12_Witness ==
    /\ obs.branch = "play"
    /\ obs.pbK = SeqTicks
    /\ led.seq_read_idx = 0
    /\ led.div_cnt = 0
    /\ obs.written = Upto(LED_SEQ_LENGTH)
    /\ led.seq[LED_SEQ_LENGTH - 1] = 1

(***************************************************************************)
(* C13.  Countdown: the tick that honours a START edge sets the countdown  *)
(* to LED_PROG_COUNT and the write index, read index, divider and          *)
(* has_light to 0.  Every tick that begins with countdown > 0 takes the    *)
(* countdown branch: the countdown goes down by exactly one, SetLED is     *)
(* called with the parity of the countdown at the start of the tick (so    *)
(* the light alternates from one countdown tick to the next), and nothing  *)
(* else of the led struct changes.  So there are LED_PROG_COUNT countdown  *)
(* ticks, and the tick after the one that reaches 0 is the first           *)
(* recording tick.                                                         *)
(***************************************************************************)
C13_Step ==
    /\ obs'.branch = "start" =>
          /\ led'.prog_countdown = LED_PROG_COUNT
          /\ led'.seq_write_idx = 0
          /\ led'.seq_read_idx = 0
          /\ led'.div_cnt = 0
          /\ led'.seq_has_light = 0
          /\ led'.seq = led.seq
    /\ obs'.branch = "countdown" <=> led.prog_countdown > 0
    /\ led.prog_countdown > 0 =>
          /\ led' = [led EXCEPT !.prog_countdown = led.prog_countdown - 1]
          /\ hw'.drive = (led.prog_countdown % 2 = 1)
          /\ SeqWriteIdx(led, touch'.active) = -1
          /\ obs.branch \in {"start", "countdown"}
          /\ obs.branch = "countdown" => hw'.drive # hw.drive
          /\ obs.branch = "start" => led.prog_countdown = LED_PROG_COUNT
    /\ (obs.branch = "countdown" /\ led.prog_countdown = 0) =>
          /\ obs'.branch = "record"
          /\ Len(obs'.recSamples) = 1
          /\ led.seq_write_idx = 0 /\ led.div_cnt = 0 /\ led.prog_acc = 0

C13_Countdown == [][C13_Step]_vars

\* the last countdown tick: the countdown was 1, the light was commanded
\* on, and a touch that started on this very tick was not looked at
C13_Witness ==
    /\ obs.branch = "countdown"
    /\ led.prog_countdown = 0
    /\ hw.drive
    /\ touch.active = TOUCH_START
    /\ Phase(led) = "RECORDING"

(***************************************************************************)
(* C14.  seq_has_light is 0 or 1 and, at every tick boundary, is 1 exactly *)
(* if one of the slots 0 .. seq_write_idx-1, the slots written so far by   *)
(* the most recent session, is 1.  In PLAYBACK seq_write_idx is            *)
(* LED_SEQ_LENGTH, so seq_has_light is 1 exactly if some slot is 1.        *)
(***************************************************************************)
C14_HasLight ==
    /\ led.seq_has_light \in {0, 1}
    /\ led.seq_has_light = 1 <=>
          \E i \in SeqIndices : i < led.seq_write_idx /\ led.seq[i] # 0
    /\ Phase(led) = "PLAYBACK" =>
          (led.seq_has_light = 1 <=> \E i \in SeqIndices : led.seq[i] # 0)

\* a second session is being recorded: its first slot is dark, and the last
\* slot still holds the light of the session before
C14_Witness ==
    /\ Phase(led) = "RECORDING"
    /\ led.seq_write_idx = 1
    /\ led.seq[0] = 0
    /\ led.seq[LED_SEQ_LENGTH - 1] = 1
    /\ led.seq_has_light = 0

(***************************************************************************)
(* C15.  Capture burst: the tick interrupt toggles the sensor pull once    *)
(* and each capture interrupt but the last toggles it once more: while a   *)
(* capture is awaited TOUCH_CAP_CYCLES - cap_cycle + 1 toggles have been   *)
(* made, and the burst has TOUCH_CAP_CYCLES toggles in all, which leaves   *)
(* the pull where it was.  touch_level changes only in                     *)
(* the capture interrupt that brings cap_cycle to 0, once per tick, to     *)
(* TACCR1 - cap_start modulo 2^16.  Between bursts cap_cycle is 0.         *)
(***************************************************************************)
C15_Step ==
    /\ ~hw.ccifg =>
          /\ touch.cap_cycle = 0
          /\ obs.branch # "boot" =>
                (irq.toggles = TOUCH_CAP_CYCLES /\ irq.latches = 1)
          /\ hw.pull = 0
    /\ hw.ccifg =>
          /\ touch.cap_cycle \in 1 .. TOUCH_CAP_CYCLES
          /\ irq.toggles = TOUCH_CAP_CYCLES - touch.cap_cycle + 1
          /\ irq.latches = 0
    /\ WDTInterval_ISR =>
          /\ hw'.pull # hw.pull
          /\ irq'.toggles = 1 /\ irq'.latches = 0
          /\ touch'.touch_level = touch.touch_level
    /\ TimerA_ISR =>
          /\ touch'.cap_cycle = touch.cap_cycle - 1
          /\ IF touch'.cap_cycle = 0
             THEN /\ hw'.pull = hw.pull
                  /\ irq'.toggles = irq.toggles
                  /\ irq'.latches = irq.latches + 1
                  /\ touch'.touch_level = U16(hw'.taccr1 - touch.cap_start)
             ELSE /\ hw'.pull # hw.pull
                  /\ irq'.toggles = irq.toggles + 1
                  /\ irq'.latches = irq.latches
                  /\ touch'.touch_level = touch.touch_level
    /\ (MainLoop \/ TimerA0_ISR) =>
          /\ hw'.pull = hw.pull
          /\ touch'.touch_level = touch.touch_level
          /\ touch'.cap_cycle = touch.cap_cycle
          /\ irq'.toggles = irq.toggles /\ irq'.latches = irq.latches

C15_BurstLength == [][C15_Step]_vars

\* the last capture of a burst has latched a level measured across a
\* wrap of the timer, and main is about to run
C15_Witness ==
    /\ ~hw.cpuoff
    /\ touch.cap_cycle = 0
    /\ irq.toggles = TOUCH_CAP_CYCLES
    /\ irq.latches = 1
    /\ hw.taccr1 < touch.cap_start
    /\ touch.touch_level = 180
    /\ obs.branch = "play"

(***************************************************************************)
(* C16.  At the end of every tick base_level <= touch_level, so the 16-bit *)
(* difference the trigger compares is the true difference.  After the      *)
(* startup window the new baseline is the exact value of                   *)
(* min(level, (base * (2^s - 1) + level) div 2^s), s the shift in use:     *)
(* the sum is below 2^32 and the quotient below 2^16, so neither the       *)
(* 32-bit intermediate nor the 16-bit store loses anything.                *)
(***************************************************************************)
C16_Step ==
    LET s == IF ActiveBit(touch.active) # 0
             THEN BASE_ACTIVE_SHIFT ELSE BASE_FILTER_SHIFT
        sum == touch.base_level * (Pow2(s) - 1) + touch'.touch_level
        quot == sum \div Pow2(s)
    IN  /\ touch'.base_level <= touch'.touch_level
        /\ Delta(touch'.touch_level, touch'.base_level)
              = touch'.touch_level - touch'.base_level
        /\ touch.start_cycle < START_CYCLES =>
              touch'.base_level = touch'.touch_level
        /\ touch.start_cycle >= START_CYCLES =>
              /\ sum \div 65536 < 65536
              /\ quot < 65536
              /\ touch'.base_level =
                    IF touch'.touch_level < quot THEN touch'.touch_level ELSE quot

C16_BaselineBelowRaw == [][C16_Step]_vars

\* a touch held at the top of the range: the large multiplier has been
\* applied to a baseline above 65000
C16_Witness ==
    /\ touch.active = TOUCH_HELD
    /\ touch.touch_level = 65535
    /\ touch.base_level >= 65000
    /\ touch.base_level < touch.touch_level

(***************************************************************************)
(* C17 as claimed: after the startup window, while the active bit is 0, a  *)
(* raw level held constant above the baseline, no further above it than    *)
(* THRESHOLD + HYSTERESIS, draws the baseline up to it.  The touch update  *)
(* is a function of the baseline, the raw level and the active bit, so a   *)
(* tick with the raw level of the tick before that does not raise the      *)
(* baseline repeats itself for ever; the claim therefore says that every   *)
(* such tick raises the baseline.                                          *)
(***************************************************************************)
C17_Step ==
    (/\ touch.start_cycle >= START_CYCLES
     /\ ActiveBit(touch.active) = 0
     /\ touch'.touch_level = touch.touch_level
     /\ touch.base_level < touch.touch_level
     /\ touch.touch_level - touch.base_level
            <= TOUCH_THRESHOLD + TOUCH_HYSTERESIS) =>
        /\ touch'.base_level > touch.base_level
        /\ touch'.base_level <= touch'.touch_level

C17_BaselineTracks == [][C17_Step]_vars

(***************************************************************************)
(* C18.  A held touch is not reabsorbed: a tick that begins with the       *)
(* active bit 1 and sees the raw level of the tick before ends with the    *)
(* active bit 1, edge state HELD, and delta above THRESHOLD - HYSTERESIS;  *)
(* the baseline has not fallen and has risen by at most delta div 2^10.    *)
(* So from the tick on which the bit became 1 the bit stays 1 for as long  *)
(* as the raw level stays the same.                                        *)
(***************************************************************************)
C18_Step ==
    (ActiveBit(touch.active) = 1 /\ touch'.touch_level = touch.touch_level) =>
        /\ ActiveBit(touch'.active) = 1
        /\ touch'.active = TOUCH_HELD
        /\ touch'.touch_level - touch'.base_level
              > TOUCH_THRESHOLD - TOUCH_HYSTERESIS
        /\ touch'.base_level >= touch.base_level
        /\ touch'.base_level - touch.base_level
              <= (touch.touch_level - touch.base_level)
                     \div Pow2(BASE_ACTIVE_SHIFT)

C18_HeldNotReabsorbed == [][C18_Step]_vars

\* a touch held far above the baseline: the large-shift filter has raised
\* the baseline on this tick and the touch is still held
C18_Witness ==
    /\ touch.active = TOUCH_HELD
    /\ touch.touch_level = 65535
    /\ touch.base_level < 65000
    /\ touch.base_level > 2000 + (65535 - 2000) \div Pow2(BASE_FILTER_SHIFT)

(***************************************************************************)
(* C19 as claimed: when an iteration of the main loop has called SetLED    *)
(* with a non-zero value, the sleep it enters next keeps SMCLK running     *)
(* (LPM0); SMCLK is switched off (LPM3) only with the light commanded off. *)
(***************************************************************************)
C19_SleepMatchesLight == hw.drive => ~hw.scg

(***************************************************************************)
(* C20.  No retrigger: a countdown begins on a tick only if the tick       *)
(* begins in PLAYBACK, the active bit was 0 at the end of the tick before  *)
(* and is 1 now.  A tick that begins in PLAYBACK with the active bit       *)
(* already 1, such as the first tick after a session during which a touch  *)
(* began and was not released, takes the play branch.  The tick before a   *)
(* START that is honoured is the last tick of the session before or a      *)
(* later one, so a tick with active bit 0 lies between two sessions.       *)
(***************************************************************************)
C20_Step ==
    /\ (obs'.branch = "start" \/ led'.prog_countdown > led.prog_countdown) =>
          /\ Phase(led) = "PLAYBACK"
          /\ ActiveBit(touch.active) = 0
          /\ ActiveBit(touch'.active) = 1
          /\ obs.branch \in {"boot", "record", "play"}
    /\ (Phase(led) = "PLAYBACK" /\ ActiveBit(touch.active) = 1) =>
          /\ obs'.branch = "play"
          /\ led'.prog_countdown = 0
          /\ led'.seq_write_idx = LED_SEQ_LENGTH
    /\ (obs.branch = "record" /\ Phase(led) = "PLAYBACK"
            /\ ActiveBit(touch'.active) = 1 /\ obs'.branch = "start") =>
          obs.recSamples[SeqTicks] = 0

C20_NoRetrigger == [][C20_Step]_vars

\* the first playback tick after a session: the touch began on the last
\* recording tick and is still held
C20_Witness ==
    /\ obs.branch = "play"
    /\ obs.pbK = 1
    /\ Len(obs.recSamples) = SeqTicks
    /\ obs.recSamples[SeqTicks - 1] = 0
    /\ obs.recSamples[SeqTicks] = 1
    /\ touch.active = TOUCH_HELD
    /\ Phase(led) = "PLAYBACK"

====
